---- MODULE Spec2Model ----
(***************************************************************************)
(* pafiso-ts: filters, sortings and paging, and their flat string-keyed    *)
(* dictionary wire format.                                                 *)
(*                                                                         *)
(* A JavaScript string is a sequence of one-character strings, so that     *)
(* join, split, parseInt, toString and the key regular expressions are     *)
(* computed character by character.  A Dictionary (Record<string,string>)  *)
(* is the sequence of its <<key, value>> entries in enumeration order.     *)
(***************************************************************************)
EXTENDS Integers, Sequences, FiniteSets, TLC

\* ------------------------------------------------------------------------
\* JavaScript values
\* ------------------------------------------------------------------------

\* null and undefined: one-element sequences whose element is not a character
Null == <<"<null>">>
Undefined == <<"<undefined>">>

\* null where an object is expected (Paging | null): a record, as objects are
NullObject == [null |-> TRUE]

\* value ?? fallback
Coalesce(value, fallback) ==
  IF value = Null \/ value = Undefined THEN fallback ELSE value

Digits == <<"0", "1", "2", "3", "4", "5", "6", "7", "8", "9">>

IsDigit(c) == \E i \in 1..10 : Digits[i] = c

DigitValue(c) == (CHOOSE i \in 1..10 : Digits[i] = c) - 1

\* WhiteSpace and LineTerminator characters that occur in the modelled inputs
IsWhiteSpace(c) == c \in {" ", "\t", "\n", "\r"}

IsLineTerminator(c) == c \in {"\n", "\r"}

\* A JavaScript number: an integer, NaN, or the power of ten 10^v (used for
\* 10^21, the first integer that Number.prototype.toString prints with an
\* exponent).
Num(n) == [t |-> "int", v |-> n]
NaN == [t |-> "nan", v |-> 0]
Pow10(e) == [t |-> "pow10", v |-> e]

isNaN(x) == x.t = "nan"

RECURSIVE NatToString(_)
NatToString(n) ==
  IF n < 10 THEN <<Digits[n + 1]>>
  ELSE NatToString(n \div 10) \o <<Digits[(n % 10) + 1]>>

\* Number.prototype.toString(): decimal digits below 10^21, from 10^21 on the
\* exponential form ("1e+21")
Number_toString(x) ==
  CASE x.t = "nan" -> <<"N", "a", "N">>
    [] x.t = "pow10" -> <<"1", "e", "+">> \o NatToString(x.v)
    [] OTHER -> IF x.v < 0 THEN <<"-">> \o NatToString(0 - x.v)
                ELSE NatToString(x.v)

RECURSIVE TrimStart(_)
TrimStart(s) ==
  IF s # <<>> /\ IsWhiteSpace(Head(s)) THEN TrimStart(Tail(s)) ELSE s

RECURSIVE DigitPrefix(_)
DigitPrefix(s) ==
  IF s # <<>> /\ IsDigit(Head(s)) THEN <<Head(s)>> \o DigitPrefix(Tail(s))
  ELSE <<>>

RECURSIVE DigitsToNat(_)
DigitsToNat(ds) ==
  IF ds = <<>> THEN 0
  ELSE 10 * DigitsToNat(SubSeq(ds, 1, Len(ds) - 1)) + DigitValue(ds[Len(ds)])

\* parseInt(s, 10): skip leading white space, read an optional sign, then the
\* longest run of decimal digits; NaN when that run is empty.  Whatever
\* follows the digits is ignored.
parseInt(s) ==
  LET t == TrimStart(s)
      neg == t # <<>> /\ Head(t) = "-"
      u == IF t # <<>> /\ Head(t) \in {"-", "+"} THEN Tail(t) ELSE t
      ds == DigitPrefix(u)
  IN IF ds = <<>> THEN NaN
     ELSE IF neg THEN Num(0 - DigitsToNat(ds)) ELSE Num(DigitsToNat(ds))

\* Array.prototype.join(sep)
RECURSIVE Join(_, _)
Join(arr, sep) ==
  IF arr = <<>> THEN <<>>
  ELSE IF Len(arr) = 1 THEN arr[1]
  ELSE arr[1] \o sep \o Join(Tail(arr), sep)

\* String.prototype.split(c) for a one-character separator: never empty,
\* "".split(",") is [""]
RECURSIVE Split(_, _)
Split(s, c) ==
  IF \A i \in 1..Len(s) : s[i] # c THEN <<s>>
  ELSE LET i == CHOOSE j \in 1..Len(s) :
                  s[j] = c /\ \A k \in 1..(j - 1) : s[k] # c
       IN <<SubSeq(s, 1, i - 1)>> \o Split(SubSeq(s, i + 1, Len(s)), c)

\* ------------------------------------------------------------------------
\* Dictionary = Record<string, string>
\* ------------------------------------------------------------------------

EmptyDict == <<>>

DictKeys(d) == {d[i][1] : i \in 1..Len(d)}

DictHas(d, k) == \E i \in 1..Len(d) : d[i][1] = k

\* d[k]; undefined when d has no own key k
DictGet(d, k) ==
  IF DictHas(d, k) THEN d[CHOOSE i \in 1..Len(d) : d[i][1] = k][2]
  ELSE Undefined

\* an integer-like key ("0", "7", "12"): such keys enumerate first, ascending
IsArrayIndex(k) ==
  /\ k # <<>>
  /\ \A i \in 1..Len(k) : IsDigit(k[i])
  /\ (Len(k) > 1 => k[1] # "0")

\* the key of the inherited accessor Object.prototype.__proto__
K_proto == <<"_", "_", "p", "r", "o", "t", "o", "_", "_">>

\* d[k] = v: an existing key keeps its place; a new integer-like key goes
\* among the integer-like keys in ascending order; any other new key goes
\* last.  d["__proto__"] = v calls the inherited setter, which ignores a
\* string and creates no own property.
DictSet(d, k, v) ==
  IF k = K_proto THEN d
  ELSE IF DictHas(d, k)
  THEN [i \in 1..Len(d) |-> IF d[i][1] = k THEN <<k, v>> ELSE d[i]]
  ELSE IF IsArrayIndex(k)
  THEN LET before == {i \in 1..Len(d) :
                        /\ IsArrayIndex(d[i][1])
                        /\ DigitsToNat(d[i][1]) < DigitsToNat(k)}
           n == Cardinality(before)
       IN SubSeq(d, 1, n) \o <<(<<k, v>>)>> \o SubSeq(d, n + 1, Len(d))
  ELSE Append(d, <<k, v>>)

\* ------------------------------------------------------------------------
\* types: wire codes and key names
\* ------------------------------------------------------------------------

FilterOperator ==
  [Equals |-> <<"e", "q">>,
   NotEquals |-> <<"n", "e", "q">>,
   GreaterThan |-> <<"g", "t">>,
   LessThan |-> <<"l", "t">>,
   GreaterThanOrEquals |-> <<"g", "t", "e">>,
   LessThanOrEquals |-> <<"l", "t", "e">>,
   Contains |-> <<"c", "o", "n", "t", "a", "i", "n", "s">>,
   NotContains |-> <<"n", "c", "o", "n", "t", "a", "i", "n", "s">>,
   Null |-> <<"n", "u", "l", "l">>,
   NotNull |-> <<"n", "o", "t", "n", "u", "l", "l">>]

SortOrder ==
  [Ascending |-> <<"a", "s", "c">>,
   Descending |-> <<"d", "e", "s", "c">>]

K_fields == <<"f", "i", "e", "l", "d", "s">>
K_op == <<"o", "p">>
K_val == <<"v", "a", "l">>
K_case == <<"c", "a", "s", "e">>
K_prop == <<"p", "r", "o", "p">>
K_ord == <<"o", "r", "d">>
K_skip == <<"s", "k", "i", "p">>
K_take == <<"t", "a", "k", "e">>
K_filters == <<"f", "i", "l", "t", "e", "r", "s">>
K_sortings == <<"s", "o", "r", "t", "i", "n", "g", "s">>
S_true == <<"t", "r", "u", "e">>
S_false == <<"f", "a", "l", "s", "e">>
S_comma == <<",">>

\* ------------------------------------------------------------------------
\* Filter
\* ------------------------------------------------------------------------

\* the `fields` argument of the constructor: a string or an array of strings
FieldString(s) == [isArray |-> FALSE, v |-> s]
FieldArray(a) == [isArray |-> TRUE, v |-> a]

Filter_constructor(fields, operator, value, caseSensitive) ==
  [fields |-> IF fields.isArray THEN fields.v ELSE <<fields.v>>,
   operator |-> operator,
   value |-> Coalesce(value, Null),
   caseSensitive |-> caseSensitive]

Filter_toDictionary_caseAlways(this) ==
  LET d0 == <<(<<K_fields, Join(this.fields, S_comma)>>),
              (<<K_op, this.operator>>)>>
      d1 == IF this.value # Null THEN DictSet(d0, K_val, this.value) ELSE d0
  IN DictSet(d1, K_case, IF this.caseSensitive THEN S_true ELSE S_false)

\* a version that joins the field names with ", "
Filter_toDictionary_commaSpace(this) ==
  LET d0 == <<(<<K_fields, Join(this.fields, <<",", " ">>)>>),
              (<<K_op, this.operator>>)>>
      d1 == IF this.value # Null THEN DictSet(d0, K_val, this.value) ELSE d0
  IN IF this.caseSensitive THEN DictSet(d1, K_case, S_true) ELSE d1

Filter_toDictionary(this) ==
  LET d0 == <<(<<K_fields, Join(this.fields, S_comma)>>),
              (<<K_op, this.operator>>)>>
      d1 == IF this.value # Null THEN DictSet(d0, K_val, this.value) ELSE d0
  IN IF this.caseSensitive THEN DictSet(d1, K_case, S_true) ELSE d1

\* (dict.fields ?? '').split(','): a missing key gives [""]
Filter_fromDictionary_emptyName(dict) ==
  LET fields == Split(Coalesce(DictGet(dict, K_fields), <<>>), ",")
      operator == Coalesce(DictGet(dict, K_op), FilterOperator.Equals)
      value == Coalesce(DictGet(dict, K_val), Null)
      caseSensitive == DictGet(dict, K_case) = S_true
  IN Filter_constructor(FieldArray(fields), operator, value, caseSensitive)

\* a version that falls back to Equals for an operator it does not know
Filter_fromDictionary_knownOperator(dict) ==
  LET fields == IF DictGet(dict, K_fields) = Undefined THEN <<>>
                ELSE Split(DictGet(dict, K_fields), ",")
      operator == IF \E n \in DOMAIN FilterOperator :
                       FilterOperator[n] = DictGet(dict, K_op)
                  THEN DictGet(dict, K_op) ELSE FilterOperator.Equals
      value == Coalesce(DictGet(dict, K_val), Null)
      caseSensitive == DictGet(dict, K_case) = S_true
  IN Filter_constructor(FieldArray(fields), operator, value, caseSensitive)

Filter_fromDictionary(dict) ==
  LET fields == IF DictGet(dict, K_fields) = Undefined THEN <<>>
                ELSE Split(DictGet(dict, K_fields), ",")
      operator == Coalesce(DictGet(dict, K_op), FilterOperator.Equals)
      value == Coalesce(DictGet(dict, K_val), Null)
      caseSensitive == DictGet(dict, K_case) = S_true
  IN Filter_constructor(FieldArray(fields), operator, value, caseSensitive)

\* ------------------------------------------------------------------------
\* Sorting
\* ------------------------------------------------------------------------

Sorting_constructor(property, order) ==
  [property |-> property, order |-> Coalesce(order, SortOrder.Ascending)]

Sorting_toDictionary(this) ==
  <<(<<K_prop, this.property>>), (<<K_ord, this.order>>)>>

\* reads `order` where the wire key is `ord`
Sorting_fromDictionary_wrongKey(dict) ==
  Sorting_constructor(Coalesce(DictGet(dict, K_prop), <<>>),
                      Coalesce(DictGet(dict, <<"o", "r", "d", "e", "r">>),
                               SortOrder.Ascending))

Sorting_fromDictionary(dict) ==
  Sorting_constructor(Coalesce(DictGet(dict, K_prop), <<>>),
                      Coalesce(DictGet(dict, K_ord), SortOrder.Ascending))

\* ------------------------------------------------------------------------
\* Paging
\* ------------------------------------------------------------------------

Paging_constructor(skip, take) == [skip |-> skip, take |-> take]

Paging_toDictionary(this) ==
  <<(<<K_skip, Number_toString(this.skip)>>),
    (<<K_take, Number_toString(this.take)>>)>>

Paging_fromDictionary_anyOne(dict) ==
  LET skip == IF DictGet(dict, K_skip) # Undefined
              THEN parseInt(DictGet(dict, K_skip)) ELSE NaN
      take == IF DictGet(dict, K_take) # Undefined
              THEN parseInt(DictGet(dict, K_take)) ELSE NaN
  IN IF isNaN(skip) /\ isNaN(take) THEN NullObject
     ELSE Paging_constructor(skip, take)

\* a version that signals the failure by an Error instead of null
Paging_fromDictionary_raising(dict) ==
  LET skip == IF DictGet(dict, K_skip) # Undefined
              THEN parseInt(DictGet(dict, K_skip)) ELSE NaN
      take == IF DictGet(dict, K_take) # Undefined
              THEN parseInt(DictGet(dict, K_take)) ELSE NaN
  IN IF isNaN(skip) \/ isNaN(take) THEN [raised |-> "Error"]
     ELSE Paging_constructor(skip, take)

Paging_fromDictionary(dict) ==
  LET skip == IF DictGet(dict, K_skip) # Undefined
              THEN parseInt(DictGet(dict, K_skip)) ELSE NaN
      take == IF DictGet(dict, K_take) # Undefined
              THEN parseInt(DictGet(dict, K_take)) ELSE NaN
  IN IF isNaN(skip) \/ isNaN(take) THEN NullObject
     ELSE Paging_constructor(skip, take)

\* pageNumber and pageSize are integers here
Paging_fromPage(page, pageSize) ==
  Paging_constructor(Num((page - 1) * pageSize), Num(pageSize))

Paging_fromSkipTake(skip, take) == Paging_constructor(skip, take)

\* Math.floor(a / b) + 1 for integers a and b # 0; NaN when a or b is NaN
FloorQuotientPlusOne(a, b) ==
  IF isNaN(a) \/ isNaN(b) THEN NaN ELSE Num((a.v \div b.v) + 1)

\* a page getter that counts pages from 0
Paging_page_zeroBased(this) ==
  IF this.take = Num(0) THEN Num(1)
  ELSE IF isNaN(this.skip) \/ isNaN(this.take) THEN NaN
  ELSE Num(this.skip.v \div this.take.v)

\* get page(), for skip and take that are integers or NaN
Paging_page(this) ==
  IF this.take = Num(0) THEN Num(1)
  ELSE FloorQuotientPlusOne(this.skip, this.take)

\* get pageSize()
Paging_pageSize(this) == this.take

\* ------------------------------------------------------------------------
\* SearchParameters
\* ------------------------------------------------------------------------

SearchParameters_constructor(filters, sortings, pagingParam) ==
  [filters |-> filters, sortings |-> sortings, paging |-> pagingParam]

\* a numbering that starts at 1 instead of 0
IndexedKey_oneBased(name, index, key) ==
  name \o <<"[">> \o Number_toString(Num(index + 1)) \o <<"]", "[">> \o key
       \o <<"]">>

\* the template literal `${name}[${index}][${key}]`
IndexedKey(name, index, key) ==
  name \o <<"[">> \o Number_toString(Num(index)) \o <<"]", "[">> \o key
       \o <<"]">>

\* for (const [key, value] of Object.entries(sub)) dict[`name[index][key]`] = value
RECURSIVE AddIndexedEntries(_, _, _, _)
AddIndexedEntries(dict, name, index, sub) ==
  IF sub = <<>> THEN dict
  ELSE AddIndexedEntries(
         DictSet(dict, IndexedKey(name, index, sub[1][1]), sub[1][2]),
         name, index, Tail(sub))

\* this.filters.forEach((f, index) => ...), from position `index` on
RECURSIVE AddFilters(_, _, _)
AddFilters(dict, filters, index) ==
  IF filters = <<>> THEN dict
  ELSE AddFilters(
         AddIndexedEntries(dict, K_filters, index,
                           Filter_toDictionary(Head(filters))),
         Tail(filters), index + 1)

RECURSIVE AddSortings(_, _, _)
AddSortings(dict, sortings, index) ==
  IF sortings = <<>> THEN dict
  ELSE AddSortings(
         AddIndexedEntries(dict, K_sortings, index,
                           Sorting_toDictionary(Head(sortings))),
         Tail(sortings), index + 1)

\* this.sortings.filter(...) with the `seen` set of properties
RECURSIVE UniqueFrom(_, _)
UniqueFrom(sortings, seen) ==
  IF sortings = <<>> THEN <<>>
  ELSE IF Head(sortings).property \in seen
  THEN UniqueFrom(Tail(sortings), seen)
  ELSE <<Head(sortings)>>
         \o UniqueFrom(Tail(sortings), seen \cup {Head(sortings).property})

\* a bug that keeps the last occurrence of each property instead of the first
RECURSIVE UniqueLastFrom(_)
UniqueLastFrom(sortings) ==
  IF sortings = <<>> THEN <<>>
  ELSE IF \E i \in 2..Len(sortings) :
            sortings[i].property = Head(sortings).property
  THEN UniqueLastFrom(Tail(sortings))
  ELSE <<Head(sortings)>> \o UniqueLastFrom(Tail(sortings))

getUniqueSortings_lastWins(this) == UniqueLastFrom(this.sortings)

getUniqueSortings(this) == UniqueFrom(this.sortings, {})

SearchParameters_toDictionary(this) ==
  LET d1 == AddFilters(EmptyDict, this.filters, 0)
      d2 == AddSortings(d1, getUniqueSortings(this), 0)
  IN IF this.paging # NullObject
     THEN LET pagingDict == Paging_toDictionary(this.paging)
          IN DictSet(DictSet(d2, pagingDict[1][1], pagingDict[1][2]),
                     pagingDict[2][1], pagingDict[2][2])
     ELSE d2

NoMatch == [matched |-> FALSE, index |-> <<>>, prop |-> <<>>]

\* key.match(/^name\[(\d+)\]\[(.+)\]$/) tried at the start of `key`: the
\* digit run is the index, what lies between "][" and the final "]" is the
\* property, which is not empty and holds no line terminator
MatchAtStart(name, key) ==
  LET n == Len(name)
      rest == SubSeq(key, n + 2, Len(key))
      ds == DigitPrefix(rest)
      after == SubSeq(rest, Len(ds) + 1, Len(rest))
  IN IF /\ Len(key) > n + 1
        /\ SubSeq(key, 1, n) = name
        /\ key[n + 1] = "["
        /\ ds # <<>>
        /\ Len(after) >= 4
        /\ after[1] = "]"
        /\ after[2] = "["
        /\ after[Len(after)] = "]"
        /\ \A i \in 3..(Len(after) - 1) : ~IsLineTerminator(after[i])
     THEN [matched |-> TRUE, index |-> ds,
           prop |-> SubSeq(after, 3, Len(after) - 1)]
     ELSE NoMatch

\* the same pattern without its ^ anchor
MatchIndexedKey_unanchored(name, key) ==
  LET offs == {o \in 0..Len(key) :
                 MatchAtStart(name, SubSeq(key, o + 1, Len(key))).matched}
  IN IF offs = {} THEN NoMatch
     ELSE MatchAtStart(name,
            SubSeq(key, (CHOOSE o \in offs : \A p \in offs : o <= p) + 1,
                   Len(key)))

MatchIndexedKey(name, key) == MatchAtStart(name, key)

\* Map<number, Dictionary>: the sequence of its <<index, dictionary>> entries
\* in insertion order
MapHas(m, index) == \E i \in 1..Len(m) : m[i][1] = index

MapGet(m, index) == m[CHOOSE i \in 1..Len(m) : m[i][1] = index][2]

MapKeys(m) == [i \in 1..Len(m) |-> m[i][1]]

\* a version that keeps the first value of a property:
\* if (!(prop in m.get(index))) m.get(index)[prop] = value
MapAccumulate_keepFirst(m, index, prop, value) ==
  IF MapHas(m, index)
  THEN [i \in 1..Len(m) |->
          IF m[i][1] = index /\ ~DictHas(m[i][2], prop)
          THEN <<index, DictSet(m[i][2], prop, value)>>
          ELSE m[i]]
  ELSE Append(m, <<index, DictSet(EmptyDict, prop, value)>>)

\* if (!m.has(index)) m.set(index, {}); m.get(index)[prop] = value
MapAccumulate(m, index, prop, value) ==
  IF MapHas(m, index)
  THEN [i \in 1..Len(m) |->
          IF m[i][1] = index THEN <<index, DictSet(m[i][2], prop, value)>>
          ELSE m[i]]
  ELSE Append(m, <<index, DictSet(EmptyDict, prop, value)>>)

\* one iteration of the loop over Object.entries(dict)
fromDictionary_step(acc, key, value) ==
  LET filterMatch == MatchIndexedKey(K_filters, key)
      sortingMatch == MatchIndexedKey(K_sortings, key)
  IN IF filterMatch.matched
     THEN [acc EXCEPT !.filterDicts =
             MapAccumulate(@, parseInt(filterMatch.index).v,
                           filterMatch.prop, value)]
     ELSE IF sortingMatch.matched
     THEN [acc EXCEPT !.sortingDicts =
             MapAccumulate(@, parseInt(sortingMatch.index).v,
                           sortingMatch.prop, value)]
     ELSE IF key = K_skip \/ key = K_take
     THEN [acc EXCEPT !.pagingDict = DictSet(@, key, value)]
     ELSE acc

RECURSIVE fromDictionary_loop(_, _)
fromDictionary_loop(acc, entries) ==
  IF entries = <<>> THEN acc
  ELSE fromDictionary_loop(
         fromDictionary_step(acc, entries[1][1], entries[1][2]),
         Tail(entries))

\* insertion of x into an ascending sequence of integers
RECURSIVE InsertAscending(_, _)
InsertAscending(sorted, x) ==
  IF sorted = <<>> THEN <<x>>
  ELSE IF x < Head(sorted) THEN <<x>> \o sorted
  ELSE <<Head(sorted)>> \o InsertAscending(Tail(sorted), x)

RECURSIVE SortFrom(_, _)
SortFrom(sorted, keys) ==
  IF keys = <<>> THEN sorted
  ELSE SortFrom(InsertAscending(sorted, Head(keys)), Tail(keys))

\* Array.prototype.sort() without a comparator orders by the elements'
\* strings: 10 comes before 2
RECURSIVE StringLess(_, _)
StringLess(a, b) ==
  IF b = <<>> THEN FALSE
  ELSE IF a = <<>> THEN TRUE
  ELSE IF Head(a) # Head(b) THEN DigitValue(Head(a)) < DigitValue(Head(b))
  ELSE StringLess(Tail(a), Tail(b))

RECURSIVE InsertByString(_, _)
InsertByString(sorted, x) ==
  IF sorted = <<>> THEN <<x>>
  ELSE IF StringLess(NatToString(x), NatToString(Head(sorted)))
  THEN <<x>> \o sorted
  ELSE <<Head(sorted)>> \o InsertByString(Tail(sorted), x)

RECURSIVE SortByStringFrom(_, _)
SortByStringFrom(sorted, keys) ==
  IF keys = <<>> THEN sorted
  ELSE SortByStringFrom(InsertByString(sorted, Head(keys)), Tail(keys))

sortedIndices_defaultSort(m) == SortByStringFrom(<<>>, MapKeys(m))

\* [...m.keys()].sort((a, b) => a - b)
sortedIndices(m) == SortFrom(<<>>, MapKeys(m))

SearchParameters_fromDictionary(dict) ==
  LET acc == fromDictionary_loop(
               [filterDicts |-> <<>>, sortingDicts |-> <<>>,
                pagingDict |-> EmptyDict], dict)
      sortedFilterIndices == sortedIndices(acc.filterDicts)
      sortedSortingIndices == sortedIndices(acc.sortingDicts)
      filters == [i \in 1..Len(sortedFilterIndices) |->
                    Filter_fromDictionary(
                      MapGet(acc.filterDicts, sortedFilterIndices[i]))]
      sortings == [i \in 1..Len(sortedSortingIndices) |->
                     Sorting_fromDictionary(
                       MapGet(acc.sortingDicts, sortedSortingIndices[i]))]
      pagingResult == IF Len(acc.pagingDict) > 0
                      THEN Paging_fromDictionary(acc.pagingDict)
                      ELSE NullObject
  IN SearchParameters_constructor(filters, sortings, pagingResult)

\* ------------------------------------------------------------------------
\* URLSearchParams and the query string
\* ------------------------------------------------------------------------

\* an unpaired surrogate code unit, and U+FFFD REPLACEMENT CHARACTER
LoneSurrogate == "<D800>"
ReplacementCharacter == "<FFFD>"

\* conversion of a string to a USVString, as append() and the constructor do
\* with their arguments: unpaired surrogates become U+FFFD
toUSVString(str) ==
  [i \in 1..Len(str) |->
     IF str[i] = LoneSurrogate THEN ReplacementCharacter ELSE str[i]]

\* params.append(name, value); a URLSearchParams is the list of its pairs
URLSearchParams_append(params, name, value) ==
  Append(params, <<toUSVString(name), toUSVString(value)>>)

AsciiAlphanumeric ==
  {"0", "1", "2", "3", "4", "5", "6", "7", "8", "9",
   "a", "b", "c", "d", "e", "f", "g", "h", "i", "j", "k", "l", "m",
   "n", "o", "p", "q", "r", "s", "t", "u", "v", "w", "x", "y", "z",
   "A", "B", "C", "D", "E", "F", "G", "H", "I", "J", "K", "L", "M",
   "N", "O", "P", "Q", "R", "S", "T", "U", "V", "W", "X", "Y", "Z"}

\* the characters the application/x-www-form-urlencoded serializer leaves
FormUnreserved(c) == c \in AsciiAlphanumeric \cup {"*", "-", ".", "_"}

\* UTF-8 bytes (two hexadecimal digits each) of the other characters that
\* occur in the modelled strings
Utf8Table ==
  <<(<<" ", <<(<<"2", "0">>)>>>>),
    (<<"%", <<(<<"2", "5">>)>>>>),
    (<<"&", <<(<<"2", "6">>)>>>>),
    (<<"+", <<(<<"2", "B">>)>>>>),
    (<<",", <<(<<"2", "C">>)>>>>),
    (<<"=", <<(<<"3", "D">>)>>>>),
    (<<"?", <<(<<"3", "F">>)>>>>),
    (<<"[", <<(<<"5", "B">>)>>>>),
    (<<"]", <<(<<"5", "D">>)>>>>),
    (<<"a", <<(<<"6", "1">>)>>>>),
    (<<ReplacementCharacter,
       <<(<<"E", "F">>), (<<"B", "F">>), (<<"B", "D">>)>>>>)>>

Utf8Bytes(c) ==
  Utf8Table[CHOOSE i \in 1..Len(Utf8Table) : Utf8Table[i][1] = c][2]

RECURSIVE PercentEncodeBytes(_)
PercentEncodeBytes(bytes) ==
  IF bytes = <<>> THEN <<>>
  ELSE <<"%">> \o Head(bytes) \o PercentEncodeBytes(Tail(bytes))

\* a serializer that leaves "+" as it is
FormEncodeChar_plusLiteral(c) ==
  IF FormUnreserved(c) \/ c = "+" THEN <<c>>
  ELSE IF c = " " THEN <<"+">>
  ELSE PercentEncodeBytes(Utf8Bytes(c))

\* one character in the serializer: left alone, " " as "+", or its UTF-8 bytes
\* percent-encoded
FormEncodeChar(c) ==
  IF FormUnreserved(c) THEN <<c>>
  ELSE IF c = " " THEN <<"+">>
  ELSE PercentEncodeBytes(Utf8Bytes(c))

RECURSIVE FormEncode(_)
FormEncode(str) ==
  IF str = <<>> THEN <<>>
  ELSE FormEncodeChar(Head(str)) \o FormEncode(Tail(str))

\* params.toString(): name=value pairs joined by "&"
URLSearchParams_toString(params) ==
  Join([i \in 1..Len(params) |->
          FormEncode(params[i][1]) \o <<"=">> \o FormEncode(params[i][2])],
       <<"&">>)

IsHexDigit(c) ==
  IsDigit(c) \/ c \in {"A", "B", "C", "D", "E", "F", "a", "b", "c", "d", "e", "f"}

UpperHex(c) ==
  CASE c = "a" -> "A" [] c = "b" -> "B" [] c = "c" -> "C"
    [] c = "d" -> "D" [] c = "e" -> "E" [] c = "f" -> "F"
    [] OTHER -> c

\* percent-decoding: "%" and two hexadecimal digits give a byte (a pair of
\* digits), anything else stands for itself (a sequence of one character)
RECURSIVE PercentDecode(_)
PercentDecode(str) ==
  IF str = <<>> THEN <<>>
  ELSE IF /\ Head(str) = "%"
          /\ Len(str) >= 3
          /\ IsHexDigit(str[2])
          /\ IsHexDigit(str[3])
  THEN <<(<<UpperHex(str[2]), UpperHex(str[3])>>)>>
         \o PercentDecode(SubSeq(str, 4, Len(str)))
  ELSE <<(<<Head(str)>>)>> \o PercentDecode(Tail(str))

\* the character of a byte below 0x80
AsciiChar(byte) ==
  Utf8Table[CHOOSE i \in 1..Len(Utf8Table) : Utf8Table[i][2] = <<byte>>][1]

\* UTF-8 decoding without BOM of the decoded tokens: EF BF BD is U+FFFD, a
\* byte below 0x80 is its character, and any other byte of the modelled
\* inputs starts no valid sequence and is replaced by U+FFFD
RECURSIVE Utf8Decode(_)
Utf8Decode(tokens) ==
  IF tokens = <<>> THEN <<>>
  ELSE IF Len(Head(tokens)) = 1
  THEN Head(tokens) \o Utf8Decode(Tail(tokens))
  ELSE IF /\ Len(tokens) >= 3
          /\ SubSeq(tokens, 1, 3) = Utf8Bytes(ReplacementCharacter)
  THEN <<ReplacementCharacter>> \o Utf8Decode(SubSeq(tokens, 4, Len(tokens)))
  ELSE IF Head(tokens)[1] \in {"0", "1", "2", "3", "4", "5", "6", "7"}
  THEN <<AsciiChar(Head(tokens))>> \o Utf8Decode(Tail(tokens))
  ELSE <<ReplacementCharacter>> \o Utf8Decode(Tail(tokens))

PlusToSpace(str) ==
  [i \in 1..Len(str) |-> IF str[i] = "+" THEN " " ELSE str[i]]

FormDecode(str) == Utf8Decode(PercentDecode(PlusToSpace(str)))

\* one name=value sequence: split at the first "=", the value is empty when
\* there is none
ParsePair(sequence) ==
  IF \E i \in 1..Len(sequence) : sequence[i] = "="
  THEN LET i == CHOOSE j \in 1..Len(sequence) :
                  sequence[j] = "=" /\ \A k \in 1..(j - 1) : sequence[k] # "="
       IN <<FormDecode(SubSeq(sequence, 1, i - 1)),
            FormDecode(SubSeq(sequence, i + 1, Len(sequence)))>>
  ELSE <<FormDecode(sequence), <<>>>>

NonEmpty(sequence) == sequence # <<>>

\* new URLSearchParams(init) for a string: one leading "?" is dropped, the
\* rest is split at "&", empty sequences are skipped
URLSearchParams_new(init) ==
  LET u == toUSVString(init)
      t == IF u # <<>> /\ Head(u) = "?" THEN Tail(u) ELSE u
      sequences == SelectSeq(Split(t, "&"), NonEmpty)
  IN [i \in 1..Len(sequences) |-> ParsePair(sequences[i])]

\* for (const [key, value] of Object.entries(dict)) params.append(key, value)
RECURSIVE AppendEntries(_, _)
AppendEntries(params, entries) ==
  IF entries = <<>> THEN params
  ELSE AppendEntries(
         URLSearchParams_append(params, entries[1][1], entries[1][2]),
         Tail(entries))

SearchParameters_toURLSearchParams(this) ==
  AppendEntries(<<>>, SearchParameters_toDictionary(this))

SearchParameters_toQueryString(this) ==
  URLSearchParams_toString(SearchParameters_toURLSearchParams(this))

\* for (const [key, value] of params.entries()) dict[key] = value
RECURSIVE SetEntries(_, _)
SetEntries(dict, pairs) ==
  IF pairs = <<>> THEN dict
  ELSE SetEntries(DictSet(dict, pairs[1][1], pairs[1][2]), Tail(pairs))

\* a loop that keeps the first value of a key:
\* if (!(key in dict)) dict[key] = value
RECURSIVE SetNewEntries(_, _)
SetNewEntries(dict, pairs) ==
  IF pairs = <<>> THEN dict
  ELSE SetNewEntries(
         IF DictHas(dict, pairs[1][1]) THEN dict
         ELSE DictSet(dict, pairs[1][1], pairs[1][2]),
         Tail(pairs))

SearchParameters_fromQueryString_firstWins(queryString) ==
  SearchParameters_fromDictionary(
    SetNewEntries(EmptyDict, URLSearchParams_new(queryString)))

SearchParameters_fromQueryString(queryString) ==
  SearchParameters_fromDictionary(
    SetEntries(EmptyDict, URLSearchParams_new(queryString)))

SearchParameters_fromURLSearchParams(params) ==
  SearchParameters_fromDictionary(SetEntries(EmptyDict, params))

\* ------------------------------------------------------------------------
\* State
\* ------------------------------------------------------------------------

VARIABLES
  fb,        \* a FilterBuilder: its private _fields, _operator, _value, _caseSensitive
  flt,       \* the Filter made last (NullObject before the first)
  fltVia,    \* the operation that made flt
  fltIn,     \* what that operation was given
  fltDict    \* flt.toDictionary() once called (it always holds `fields` and
             \* `op`, so the empty dictionary stands for "not called")

filterVars == <<fb, flt, fltVia, fltIn, fltDict>>

VARIABLES
  rtPc,      \* where the client of a SearchParameters stands: "idle", "made",
             \* "serialized", "parsed", "reserialized"
  sp,        \* the SearchParameters it constructed
  spDict,    \* sp.toDictionary()
  parsed,    \* SearchParameters.fromDictionary(spDict)
  parsedDict \* parsed.toDictionary()

roundTripVars == <<rtPc, sp, spDict, parsed, parsedDict>>

VARIABLES
  heap,      \* the arrays that are shared by reference: address -> elements
  spb,       \* a SearchParametersBuilder: the addresses of its _filters and
             \* _sortings arrays, and its _paging
  v1, v2,    \* the values its first and second build() returned
  snap1,     \* the contents v1 had when build() returned it
  snap2,     \* the same for v2
  nCalls,    \* the number of setter calls made on the builder
  asked      \* what the calls made on the builder asked for so far: the
             \* filters and the sortings given, in call order, and the
             \* paging given last

builderVars == <<heap, spb, v1, v2, snap1, snap2, nCalls, asked>>

VARIABLES
  inDict,    \* a dictionary the client fills entry by entry
  dPc,       \* "put" after an entry was set, "called" after a call on inDict
  call,      \* the operation called last on inDict
  out,       \* what it returned
  lastKey,   \* the key set last
  before     \* what SearchParameters.fromDictionary returned for the
             \* dictionary as it was before lastKey was set (NullObject when
             \* it was not called on it)

dictVars == <<inDict, dPc, call, out, lastKey, before>>

VARIABLES
  srt,       \* the Sorting that Sorting.fromDictionary returned last
  srtIn      \* the dictionary it was given

sortingVars == <<srt, srtIn>>

VARIABLES
  pag,        \* the Paging made last by Paging.fromPage (NullObject before)
  pagIn,      \* the page number and page size it was made from
  pagPage,    \* pag.page once read (NullObject before)
  pagSize     \* pag.pageSize once read (NullObject before)

pagingVars == <<pag, pagIn, pagPage, pagSize>>

VARIABLES
  qKind,     \* what the query string was made from: "none", "dict", "sp", "raw"
  qDict,     \* the dictionary it was encoded from
  qSp,       \* the SearchParameters whose toQueryString() it is
  qs,        \* the query string
  nPieces,   \* the number of sequences written by hand
  qCall,     \* the operation called on qs: "none", "fromQueryString",
             \* "fromURLSearchParams"
  qOut,      \* what it returned
  qRef       \* what SearchParameters.fromDictionary returned for the
             \* dictionary qs was made from (NullObject when not called)

queryVars == <<qKind, qDict, qSp, qs, nPieces, qCall, qOut, qRef>>

vars ==
  <<filterVars, roundTripVars, builderVars, dictVars, pagingVars, queryVars,
    sortingVars>>

\* ------------------------------------------------------------------------
\* Inputs of the Filter operations
\* ------------------------------------------------------------------------

FieldNamePool == {<<>>, <<"a">>, <<"b">>}

FieldArrayPool == {<<>>, <<(<<"a">>)>>, <<(<<"a">>), (<<"b">>)>>}

ValuePool == {<<"x">>}

OperatorPool ==
  {FilterOperator.Equals, FilterOperator.Contains, FilterOperator.Null,
   FilterOperator.NotNull}

\* dictionaries handed to Filter.fromDictionary besides a serialized Filter
FilterDictPool ==
  {EmptyDict,
   <<(<<K_op, FilterOperator.NotNull>>)>>,
   <<(<<K_fields, <<>>>>), (<<K_case, S_false>>)>>,
   <<(<<K_fields, <<"a", ",", "b">>>>), (<<K_val, <<"x">>>>),
     (<<K_case, S_true>>)>>,
   <<(<<K_val, <<>>>>), (<<K_case, <<"T", "r", "u", "e">>>>)>>,
   <<(<<K_op, <<"l", "i", "k", "e">>>>), (<<K_case, <<"1">>>>)>>}

\* dictionaries handed to Sorting.fromDictionary
SortingDictPool ==
  {EmptyDict,
   <<(<<K_prop, <<"p">>>>)>>,
   <<(<<K_ord, SortOrder.Descending>>)>>,
   <<(<<K_prop, <<>>>>), (<<K_ord, <<"D", "E", "S", "C">>>>)>>,
   <<(<<K_prop, <<"p">>>>), (<<K_ord, <<>>>>)>>,
   <<(<<(<<"o", "r", "d", "e", "r">>), SortOrder.Descending>>)>>}

\* the wire key name[i][k] of the format's table, written out
WireKey(name, i, k) ==
  name \o <<"[">> \o NatToString(i) \o <<"]", "[">> \o k \o <<"]">>

\* flat dictionaries handed to SearchParameters.fromDictionary for its filters
SearchDictPool ==
  {<<(<<WireKey(K_filters, 2, K_fields), <<"a">>>>),
     (<<WireKey(K_filters, 0, K_op), FilterOperator.Contains>>)>>,
   <<(<<WireKey(K_filters, 1, K_val), <<"x">>>>),
     (<<WireKey(K_filters, 1, K_fields), <<>>>>)>>,
   <<(<<WireKey(K_filters, 0, K_case), S_true>>),
     (<<WireKey(K_filters, 1, K_fields), <<"a", ",", "b">>>>),
     (<<K_fields, <<"a">>>>)>>}

MaxPosition == 2

\* ------------------------------------------------------------------------
\* FilterBuilder and Filter
\* ------------------------------------------------------------------------

FilterBuilder_new ==
  [_fields |-> <<>>, _operator |-> FilterOperator.Equals, _value |-> Null,
   _caseSensitive |-> FALSE]

InitFilter ==
  /\ srt = NullObject
  /\ srtIn = EmptyDict
  /\ fb = FilterBuilder_new
  /\ flt = NullObject
  /\ fltVia = "none"
  /\ fltIn = <<>>
  /\ fltDict = EmptyDict

FilterBuilder_field(field) ==
  /\ fb' = [fb EXCEPT !._fields = <<field>>]
  /\ UNCHANGED <<flt, fltVia, fltIn, fltDict>>

FilterBuilder_fields(fields) ==
  /\ fb' = [fb EXCEPT !._fields = fields]
  /\ UNCHANGED <<flt, fltVia, fltIn, fltDict>>

FilterBuilder_op(operator) ==
  /\ fb' = [fb EXCEPT !._operator = operator]
  /\ UNCHANGED <<flt, fltVia, fltIn, fltDict>>

FilterBuilder_value(value) ==
  /\ fb' = [fb EXCEPT !._value = value]
  /\ UNCHANGED <<flt, fltVia, fltIn, fltDict>>

FilterBuilder_caseSensitive(enabled) ==
  /\ fb' = [fb EXCEPT !._caseSensitive = enabled]
  /\ UNCHANGED <<flt, fltVia, fltIn, fltDict>>

\* this.op(operator).value(value)
OpThenValue(operator, value) ==
  /\ fb' = [fb EXCEPT !._operator = operator, !._value = value]
  /\ UNCHANGED <<flt, fltVia, fltIn, fltDict>>

FilterBuilder_equals(value) == OpThenValue(FilterOperator.Equals, value)

FilterBuilder_notEquals(value) == OpThenValue(FilterOperator.NotEquals, value)

FilterBuilder_greaterThan(value) ==
  OpThenValue(FilterOperator.GreaterThan, value)

FilterBuilder_lessThan(value) == OpThenValue(FilterOperator.LessThan, value)

FilterBuilder_greaterThanOrEquals(value) ==
  OpThenValue(FilterOperator.GreaterThanOrEquals, value)

FilterBuilder_lessThanOrEquals(value) ==
  OpThenValue(FilterOperator.LessThanOrEquals, value)

FilterBuilder_contains(value) == OpThenValue(FilterOperator.Contains, value)

FilterBuilder_notContains(value) ==
  OpThenValue(FilterOperator.NotContains, value)

FilterBuilder_isNull == FilterBuilder_op(FilterOperator.Null)

FilterBuilder_isNotNull == FilterBuilder_op(FilterOperator.NotNull)

\* the Filter that build() returns for builder state b
FilterBuilder_build_result(b) ==
  Filter_constructor(FieldArray(b._fields), b._operator, b._value,
                     b._caseSensitive)

FilterBuilder_build ==
  /\ flt' = FilterBuilder_build_result(fb)
  /\ fltVia' = "FilterBuilder.build"
  /\ fltIn' = fb._fields
  /\ fltDict' = EmptyDict
  /\ UNCHANGED fb

\* new Filter(fields, operator, value, caseSensitive)
NewFilter(fields, operator, value, caseSensitive) ==
  /\ flt' = Filter_constructor(fields, operator, value, caseSensitive)
  /\ fltVia' = "new Filter"
  /\ fltIn' = fields
  /\ fltDict' = EmptyDict
  /\ UNCHANGED fb

CallFilter_toDictionary ==
  /\ flt # NullObject
  /\ fltDict' = Filter_toDictionary(flt)
  /\ UNCHANGED <<fb, flt, fltVia, fltIn>>

CallFilter_fromDictionary(dict) ==
  /\ flt' = Filter_fromDictionary(dict)
  /\ fltVia' = "Filter.fromDictionary"
  /\ fltIn' = dict
  /\ fltDict' = EmptyDict
  /\ UNCHANGED fb

\* SearchParameters.fromDictionary(dict).filters[position - 1]
TakeParsedFilter(dict, position) ==
  /\ position <= Len(SearchParameters_fromDictionary(dict).filters)
  /\ flt' = SearchParameters_fromDictionary(dict).filters[position]
  /\ fltVia' = "SearchParameters.fromDictionary"
  /\ fltIn' = [dict |-> dict, position |-> position]
  /\ fltDict' = EmptyDict
  /\ UNCHANGED fb

\* filter(): a new FilterBuilder; the client lets go of the Filter it held
NewFilterBuilder ==
  /\ fb' = FilterBuilder_new
  /\ flt' = NullObject
  /\ fltVia' = "none"
  /\ fltIn' = <<>>
  /\ fltDict' = EmptyDict

CallSorting_fromDictionary(dict) ==
  /\ srt' = Sorting_fromDictionary(dict)
  /\ srtIn' = dict
  /\ UNCHANGED <<filterVars, roundTripVars, builderVars, dictVars, pagingVars,
                 queryVars>>

\* The client examines one Filter at a time: it configures a builder until it
\* builds, or it constructs or deserializes a Filter while its builder is
\* still untouched.
FilterFrame ==
  UNCHANGED <<roundTripVars, builderVars, dictVars, pagingVars, queryVars,
              sortingVars>>

NextFilter ==
  \/ \E f \in FieldNamePool :
       flt = NullObject /\ FilterBuilder_field(f) /\ FilterFrame
  \/ \E fs \in FieldArrayPool :
       flt = NullObject /\ FilterBuilder_fields(fs) /\ FilterFrame
  \/ \E o \in OperatorPool :
       flt = NullObject /\ FilterBuilder_op(o) /\ FilterFrame
  \/ \E v \in ValuePool \cup {Null} :
       flt = NullObject /\ FilterBuilder_value(v) /\ FilterFrame
  \/ \E e \in BOOLEAN :
       flt = NullObject /\ FilterBuilder_caseSensitive(e) /\ FilterFrame
  \/ \E v \in ValuePool :
       flt = NullObject /\ FilterBuilder_equals(v) /\ FilterFrame
  \/ \E v \in ValuePool :
       flt = NullObject /\ FilterBuilder_notEquals(v) /\ FilterFrame
  \/ \E v \in ValuePool :
       flt = NullObject /\ FilterBuilder_greaterThan(v) /\ FilterFrame
  \/ \E v \in ValuePool :
       flt = NullObject /\ FilterBuilder_lessThan(v) /\ FilterFrame
  \/ \E v \in ValuePool :
       flt = NullObject /\ FilterBuilder_greaterThanOrEquals(v) /\ FilterFrame
  \/ \E v \in ValuePool :
       flt = NullObject /\ FilterBuilder_lessThanOrEquals(v) /\ FilterFrame
  \/ \E v \in ValuePool :
       flt = NullObject /\ FilterBuilder_contains(v) /\ FilterFrame
  \/ \E v \in ValuePool :
       flt = NullObject /\ FilterBuilder_notContains(v) /\ FilterFrame
  \/ flt = NullObject /\ FilterBuilder_isNull /\ FilterFrame
  \/ flt = NullObject /\ FilterBuilder_isNotNull /\ FilterFrame
  \/ flt = NullObject /\ FilterBuilder_build /\ FilterFrame
  \/ \E n \in FieldNamePool, o \in OperatorPool,
        v \in ValuePool \cup {Null, Undefined}, c \in BOOLEAN :
       /\ fb = FilterBuilder_new
       /\ NewFilter(FieldString(n), o, v, c)
       /\ FilterFrame
  \/ \E a \in FieldArrayPool, o \in OperatorPool,
        v \in ValuePool \cup {Null, Undefined}, c \in BOOLEAN :
       /\ fb = FilterBuilder_new
       /\ NewFilter(FieldArray(a), o, v, c)
       /\ FilterFrame
  \/ \E d \in FilterDictPool :
       fb = FilterBuilder_new /\ CallFilter_fromDictionary(d) /\ FilterFrame
  \/ \E d \in SearchDictPool, i \in 1..MaxPosition :
       fb = FilterBuilder_new /\ TakeParsedFilter(d, i) /\ FilterFrame
  \/ CallFilter_toDictionary /\ FilterFrame
  \/ fltDict # EmptyDict /\ CallFilter_fromDictionary(fltDict) /\ FilterFrame
  \/ NewFilterBuilder /\ FilterFrame
  \/ \E d \in SortingDictPool : CallSorting_fromDictionary(d)

\* ------------------------------------------------------------------------
\* SearchParameters: construct, serialize, parse, serialize again
\* ------------------------------------------------------------------------

MaxFilters == 2

MaxSortings == 2

SeqsUpTo(S, n) == UNION {[1..k -> S] : k \in 0..n}

\* the Filter values a SearchParameters is constructed with
FilterPool ==
  {Filter_constructor(FieldString(<<"a">>), FilterOperator.Contains,
                      <<"x">>, FALSE),
   Filter_constructor(FieldArray(<<(<<"a">>), (<<"b">>)>>),
                      FilterOperator.Equals, <<>>, TRUE),
   Filter_constructor(FieldArray(<<>>), FilterOperator.Null, Undefined, FALSE),
   Filter_constructor(FieldArray(<<(<<"a", ",", "b">>)>>),
                      FilterOperator.Equals, <<"x">>, FALSE)}

SortingPool ==
  {Sorting_constructor(<<"p">>, SortOrder.Ascending),
   Sorting_constructor(<<"p">>, SortOrder.Descending),
   Sorting_constructor(<<"q">>, SortOrder.Descending)}

PagingPool ==
  {NullObject,
   Paging_fromPage(3, 10),
   Paging_fromSkipTake(Num(-5), Num(0)),
   Paging_constructor(Pow10(21), Num(10)),
   Paging_constructor(Num(0), NaN)}

InitRoundTrip ==
  /\ rtPc = "idle"
  /\ sp = NullObject
  /\ spDict = EmptyDict
  /\ parsed = NullObject
  /\ parsedDict = EmptyDict

NewSearchParameters(filters, sortings, pagingParam) ==
  /\ rtPc = "idle"
  /\ sp' = SearchParameters_constructor(filters, sortings, pagingParam)
  /\ rtPc' = "made"
  /\ UNCHANGED <<spDict, parsed, parsedDict>>

CallToDictionary ==
  /\ rtPc = "made"
  /\ spDict' = SearchParameters_toDictionary(sp)
  /\ rtPc' = "serialized"
  /\ UNCHANGED <<sp, parsed, parsedDict>>

CallFromDictionary ==
  /\ rtPc = "serialized"
  /\ parsed' = SearchParameters_fromDictionary(spDict)
  /\ rtPc' = "parsed"
  /\ UNCHANGED <<sp, spDict, parsedDict>>

CallToDictionaryAgain ==
  /\ rtPc = "parsed"
  /\ parsedDict' = SearchParameters_toDictionary(parsed)
  /\ rtPc' = "reserialized"
  /\ UNCHANGED <<sp, spDict, parsed>>

\* the client lets go of its values and starts over
StartOver ==
  /\ rtPc # "idle"
  /\ rtPc' = "idle"
  /\ sp' = NullObject
  /\ spDict' = EmptyDict
  /\ parsed' = NullObject
  /\ parsedDict' = EmptyDict

RoundTripFrame ==
  UNCHANGED <<filterVars, builderVars, dictVars, pagingVars, queryVars,
              sortingVars>>

NextRoundTrip ==
  \/ \E fs \in SeqsUpTo(FilterPool, MaxFilters),
        ss \in SeqsUpTo(SortingPool, MaxSortings),
        pg \in PagingPool :
       NewSearchParameters(fs, ss, pg) /\ RoundTripFrame
  \/ CallToDictionary /\ RoundTripFrame
  \/ CallFromDictionary /\ RoundTripFrame
  \/ CallToDictionaryAgain /\ RoundTripFrame
  \/ StartOver /\ RoundTripFrame

\* ------------------------------------------------------------------------
\* SortingBuilder, PagingBuilder, SearchParametersBuilder
\* ------------------------------------------------------------------------

SortingBuilder_new == [_property |-> <<>>, _order |-> SortOrder.Ascending]

SortingBuilder_by(b, property) == [b EXCEPT !._property = property]

SortingBuilder_asc(b) == [b EXCEPT !._order = SortOrder.Ascending]

SortingBuilder_desc(b) == [b EXCEPT !._order = SortOrder.Descending]

SortingBuilder_build_result(b) == Sorting_constructor(b._property, b._order)

PagingBuilder_new == [_skip |-> Num(0), _take |-> Num(10)]

PagingBuilder_skip(b, count) == [b EXCEPT !._skip = count]

PagingBuilder_take(b, count) == [b EXCEPT !._take = count]

PagingBuilder_page(b, pageNumber, pageSize) ==
  [b EXCEPT !._skip = Num((pageNumber - 1) * pageSize),
            !._take = Num(pageSize)]

PagingBuilder_build_result(b) == Paging_constructor(b._skip, b._take)

\* An argument of filter(), sortBy() or paginate(): a finished value, a
\* builder, or a callback (given by the builder it returns when it is handed
\* a new builder).
AsValue(v) == [kind |-> "value", v |-> v]
AsBuilder(b) == [kind |-> "builder", v |-> b]
AsCallback(b) == [kind |-> "function", v |-> b]

FilterArgPool ==
  {AsValue(Filter_constructor(FieldString(<<"a">>), FilterOperator.Equals,
                              <<"x">>, FALSE)),
   AsBuilder([FilterBuilder_new EXCEPT !._fields = <<(<<"b">>)>>,
                                       !._operator = FilterOperator.Null]),
   AsCallback([FilterBuilder_new EXCEPT !._fields = <<(<<"a">>)>>,
                                        !._operator = FilterOperator.Contains,
                                        !._value = <<"x">>])}

SortingArgPool ==
  {AsValue(Sorting_constructor(<<"p">>, SortOrder.Descending)),
   AsBuilder(SortingBuilder_desc(SortingBuilder_by(SortingBuilder_new, <<"q">>))),
   AsCallback(SortingBuilder_asc(SortingBuilder_by(SortingBuilder_new, <<"p">>)))}

PagingArgPool ==
  {AsValue(Paging_fromSkipTake(Num(5), Num(10))),
   AsBuilder(PagingBuilder_page(PagingBuilder_new, 2, 25)),
   AsCallback(PagingBuilder_take(PagingBuilder_skip(PagingBuilder_new, Num(20)),
                                 Num(10)))}

PageNumberPool == {1, 3}

PageSizePool == {10}

MaxCalls == 3

FiltersAddress == "SearchParametersBuilder._filters"

SortingsAddress == "SearchParametersBuilder._sortings"

\* new SearchParametersBuilder(): two new empty arrays, no paging
InitBuilder ==
  /\ heap = [a \in {FiltersAddress, SortingsAddress} |-> <<>>]
  /\ spb = [_filters |-> FiltersAddress, _sortings |-> SortingsAddress,
            _paging |-> NullObject]
  /\ v1 = NullObject
  /\ v2 = NullObject
  /\ snap1 = NullObject
  /\ snap2 = NullObject
  /\ nCalls = 0
  /\ asked = [filters |-> <<>>, sortings |-> <<>>, paging |-> NullObject]

FilterOf(arg) ==
  IF arg.kind = "value" THEN arg.v ELSE FilterBuilder_build_result(arg.v)

SortingOf(arg) ==
  IF arg.kind = "value" THEN arg.v ELSE SortingBuilder_build_result(arg.v)

PagingOf(arg) ==
  IF arg.kind = "value" THEN arg.v ELSE PagingBuilder_build_result(arg.v)

\* the client notes the filters, the sortings or the paging it has just given
AskedFilters(given) == [asked EXCEPT !.filters = @ \o given]

AskedSortings(given) == [asked EXCEPT !.sortings = @ \o given]

AskedPaging(given) == [asked EXCEPT !.paging = given]

\* a version that puts the new filter first: this._filters.unshift(...)
SearchParametersBuilder_filter_unshift(filterOrBuilder) ==
  /\ nCalls < MaxCalls
  /\ heap' = [heap EXCEPT ![spb._filters] =
                <<FilterOf(filterOrBuilder)>> \o @]
  /\ nCalls' = nCalls + 1
  /\ asked' = AskedFilters(<<FilterOf(filterOrBuilder)>>)
  /\ UNCHANGED <<spb, v1, v2, snap1, snap2>>

\* this._filters.push(...)
SearchParametersBuilder_filter(filterOrBuilder) ==
  /\ nCalls < MaxCalls
  /\ heap' = [heap EXCEPT ![spb._filters] = Append(@, FilterOf(filterOrBuilder))]
  /\ nCalls' = nCalls + 1
  /\ asked' = AskedFilters(<<FilterOf(filterOrBuilder)>>)
  /\ UNCHANGED <<spb, v1, v2, snap1, snap2>>

\* filters(a, b): this.filter(a); this.filter(b)
SearchParametersBuilder_filters(filtersArray) ==
  /\ nCalls < MaxCalls
  /\ heap' = [heap EXCEPT ![spb._filters] =
                @ \o [i \in 1..Len(filtersArray) |-> FilterOf(filtersArray[i])]]
  /\ nCalls' = nCalls + 1
  /\ asked' = AskedFilters([i \in 1..Len(filtersArray) |->
                              FilterOf(filtersArray[i])])
  /\ UNCHANGED <<spb, v1, v2, snap1, snap2>>

SearchParametersBuilder_sortBy(sortingOrBuilder) ==
  /\ nCalls < MaxCalls
  /\ heap' = [heap EXCEPT ![spb._sortings] =
                Append(@, SortingOf(sortingOrBuilder))]
  /\ nCalls' = nCalls + 1
  /\ asked' = AskedSortings(<<SortingOf(sortingOrBuilder)>>)
  /\ UNCHANGED <<spb, v1, v2, snap1, snap2>>

SearchParametersBuilder_sortings(sortingsArray) ==
  /\ nCalls < MaxCalls
  /\ heap' = [heap EXCEPT ![spb._sortings] =
                @ \o [i \in 1..Len(sortingsArray) |-> SortingOf(sortingsArray[i])]]
  /\ nCalls' = nCalls + 1
  /\ asked' = AskedSortings([i \in 1..Len(sortingsArray) |->
                               SortingOf(sortingsArray[i])])
  /\ UNCHANGED <<spb, v1, v2, snap1, snap2>>

SearchParametersBuilder_paginate(pagingOrBuilder) ==
  /\ nCalls < MaxCalls
  /\ spb' = [spb EXCEPT !._paging = PagingOf(pagingOrBuilder)]
  /\ nCalls' = nCalls + 1
  /\ asked' = AskedPaging(PagingOf(pagingOrBuilder))
  /\ UNCHANGED <<heap, v1, v2, snap1, snap2>>

SearchParametersBuilder_page(pageNumber, pageSize) ==
  /\ nCalls < MaxCalls
  /\ spb' = [spb EXCEPT !._paging = Paging_fromPage(pageNumber, pageSize)]
  /\ nCalls' = nCalls + 1
  /\ asked' = AskedPaging([skip |-> Num((pageNumber - 1) * pageSize),
                            take |-> Num(pageSize)])
  /\ UNCHANGED <<heap, v1, v2, snap1, snap2>>

SearchParametersBuilder_skipTake(skip, take) ==
  /\ nCalls < MaxCalls
  /\ spb' = [spb EXCEPT !._paging = Paging_fromSkipTake(skip, take)]
  /\ nCalls' = nCalls + 1
  /\ asked' = AskedPaging([skip |-> skip, take |-> take])
  /\ UNCHANGED <<heap, v1, v2, snap1, snap2>>

\* what a SearchParameters holds now: its arrays are read through the heap
Contents(v) ==
  [filters |-> heap[v.filters], sortings |-> heap[v.sortings],
   paging |-> v.paging]

\* new SearchParameters(this._filters, this._sortings, this._paging): the
\* value holds the builder's own arrays
SearchParametersBuilder_build_result ==
  SearchParameters_constructor(spb._filters, spb._sortings, spb._paging)

SearchParametersBuilder_build ==
  /\ v2 = NullObject
  /\ IF v1 = NullObject
     THEN /\ v1' = SearchParametersBuilder_build_result
          /\ snap1' = Contents(SearchParametersBuilder_build_result)
          /\ UNCHANGED <<v2, snap2>>
     ELSE /\ v2' = SearchParametersBuilder_build_result
          /\ snap2' = Contents(SearchParametersBuilder_build_result)
          /\ UNCHANGED <<v1, snap1>>
  /\ UNCHANGED <<heap, spb, nCalls, asked>>

BuilderFrame ==
  UNCHANGED <<filterVars, roundTripVars, dictVars, pagingVars, queryVars,
              sortingVars>>

NextBuilder ==
  \/ \E f \in FilterArgPool :
       SearchParametersBuilder_filter(f) /\ BuilderFrame
  \/ \E f, g \in FilterArgPool :
       /\ f.kind # "function" /\ g.kind # "function"
       /\ SearchParametersBuilder_filters(<<f, g>>)
       /\ BuilderFrame
  \/ \E s \in SortingArgPool :
       SearchParametersBuilder_sortBy(s) /\ BuilderFrame
  \/ \E s, t \in SortingArgPool :
       /\ s.kind # "function" /\ t.kind # "function"
       /\ SearchParametersBuilder_sortings(<<s, t>>)
       /\ BuilderFrame
  \/ \E pg \in PagingArgPool :
       SearchParametersBuilder_paginate(pg) /\ BuilderFrame
  \/ \E n \in PageNumberPool, size \in PageSizePool :
       SearchParametersBuilder_page(n, size) /\ BuilderFrame
  \/ SearchParametersBuilder_skipTake(Num(0), Num(20)) /\ BuilderFrame
  \/ SearchParametersBuilder_build /\ BuilderFrame

\* ------------------------------------------------------------------------
\* Deserializing a dictionary that the client fills entry by entry
\* ------------------------------------------------------------------------

MaxEntries == 2

\* the <<key, value>> entries the client sets
FilterEntryPool ==
  {<<WireKey(K_filters, 0, K_op), FilterOperator.Contains>>,
   <<WireKey(K_filters, 2, K_fields), <<"a">>>>,
   <<WireKey(K_filters, 10, K_fields), <<"b", ",", "c">>>>,
   <<WireKey(K_filters, 2, K_val), <<"x">>>>,
   <<K_filters \o <<"[", "0", "2", "]", "[">> \o K_val \o <<"]">>, <<"y">>>>}

SortingEntryPool ==
  {<<WireKey(K_sortings, 10, K_prop), <<"p">>>>,
   <<WireKey(K_sortings, 2, K_prop), <<"q">>>>,
   <<WireKey(K_sortings, 2, K_ord), SortOrder.Descending>>,
   <<K_sortings \o <<"[", "0", "0", "2", "]", "[">> \o K_prop \o <<"]">>,
     <<"r">>>>}

PagingEntryPool ==
  {<<K_skip, <<"1", "0">>>>,
   <<K_skip, <<"x">>>>,
   <<K_skip, <<" ", "-", "3">>>>,
   <<K_take, <<"2", "0">>>>,
   <<K_take, <<"5", "a", "b", "c">>>>,
   <<K_take, <<>>>>}

OtherEntryPool ==
  {<<(<<"p", "a", "g", "e">>), <<"1">>>>,
   <<(<<"x">> \o WireKey(K_filters, 0, K_op)), FilterOperator.Equals>>,
   <<(K_filters \o <<"[", "0", "]", "[", "]">>), <<"z">>>>,
   <<(K_sortings \o <<"[", "q", "]", "[">> \o K_prop \o <<"]">>), <<"z">>>>,
   <<(<<"7">>), <<"1", "0">>>>}

EntryPool ==
  FilterEntryPool \cup SortingEntryPool \cup PagingEntryPool
    \cup OtherEntryPool

InitDict ==
  /\ inDict = EmptyDict
  /\ dPc = "put"
  /\ call = "none"
  /\ out = NullObject
  /\ lastKey = <<>>
  /\ before = NullObject

\* inDict[key] = value
PutEntry(key, value) ==
  /\ dPc = "called"
  /\ Len(inDict) < MaxEntries \/ DictHas(inDict, key)
  /\ inDict' = DictSet(inDict, key, value)
  /\ lastKey' = key
  /\ before' = IF call = "SearchParameters.fromDictionary" THEN out
               ELSE NullObject
  /\ dPc' = "put"
  /\ UNCHANGED <<call, out>>

CallSearchParameters_fromDictionary ==
  /\ dPc = "put"
  /\ out' = SearchParameters_fromDictionary(inDict)
  /\ call' = "SearchParameters.fromDictionary"
  /\ dPc' = "called"
  /\ UNCHANGED <<inDict, lastKey, before>>

CallPaging_fromDictionary ==
  /\ dPc = "put"
  /\ out' = Paging_fromDictionary(inDict)
  /\ call' = "Paging.fromDictionary"
  /\ dPc' = "called"
  /\ UNCHANGED <<inDict, lastKey, before>>

DictFrame ==
  UNCHANGED <<filterVars, roundTripVars, builderVars, pagingVars, queryVars,
              sortingVars>>

NextDict ==
  \/ \E e \in EntryPool : PutEntry(e[1], e[2]) /\ DictFrame
  \/ CallSearchParameters_fromDictionary /\ DictFrame
  \/ CallPaging_fromDictionary /\ DictFrame

\* ------------------------------------------------------------------------
\* Paging by page number
\* ------------------------------------------------------------------------

MaxPage == 5

MaxPageSize == 4

\* page numbers and page sizes handed to Paging.fromPage
PageNumbers == 0..MaxPage

PageSizes == (0 - 1)..MaxPageSize

InitPaging ==
  /\ pag = NullObject
  /\ pagIn = NullObject
  /\ pagPage = NullObject
  /\ pagSize = NullObject

CallPaging_fromPage(page, pageSize) ==
  /\ pag' = Paging_fromPage(page, pageSize)
  /\ pagIn' = [page |-> page, pageSize |-> pageSize]
  /\ pagPage' = NullObject
  /\ pagSize' = NullObject

ReadPage ==
  /\ pag # NullObject
  /\ pagPage' = Paging_page(pag)
  /\ UNCHANGED <<pag, pagIn, pagSize>>

ReadPageSize ==
  /\ pag # NullObject
  /\ pagSize' = Paging_pageSize(pag)
  /\ UNCHANGED <<pag, pagIn, pagPage>>

PagingFrame ==
  UNCHANGED <<filterVars, roundTripVars, builderVars, dictVars, queryVars,
              sortingVars>>

NextPaging ==
  \/ \E n \in PageNumbers, size \in PageSizes :
       CallPaging_fromPage(n, size) /\ PagingFrame
  \/ ReadPage /\ PagingFrame
  \/ ReadPageSize /\ PagingFrame

\* ------------------------------------------------------------------------
\* Query strings: made from a dictionary, from a SearchParameters, or by hand
\* ------------------------------------------------------------------------

MaxQueryEntries == 2

MaxQueryFilters == 2

MaxPieces == 2

\* entries of the dictionaries that are encoded; every key is recognized
QueryEntryPool ==
  {<<WireKey(K_filters, 0, K_op), FilterOperator.Contains>>,
   <<WireKey(K_filters, 0, K_val), <<"a", " ", "b">>>>,
   <<WireKey(K_filters, 1, K_val), <<"+", "%">>>>,
   <<WireKey(K_filters, 0, <<"a", " ", "b">>), <<"x">>>>,
   <<WireKey(K_filters, 1, K_fields), <<"a", LoneSurrogate>>>>,
   <<K_filters \o <<"[", "0", "1", "]", "[">> \o K_val \o <<"]">>,
     <<"&", "=">>>>,
   <<WireKey(K_sortings, 0, K_prop), <<"a", ",", "b">>>>,
   <<K_skip, <<"1", "0">>>>,
   <<K_take, <<"5">>>>,
   <<K_take, <<>>>>}

DistinctKeys(entries) ==
  \A i, j \in 1..Len(entries) : i # j => entries[i][1] # entries[j][1]

QueryDictPool ==
  {d \in SeqsUpTo(QueryEntryPool, MaxQueryEntries) : DistinctKeys(d)}

QueryFilterPool ==
  {Filter_constructor(FieldString(<<"a">>), FilterOperator.Contains,
                      <<"a", " ", "b", "+", "c">>, FALSE),
   Filter_constructor(FieldArray(<<(<<"a">>), (<<"b">>)>>),
                      FilterOperator.Equals, <<"5", "%", "&", "x", "=", "?">>,
                      TRUE),
   Filter_constructor(FieldArray(<<>>), FilterOperator.Null, Null, FALSE),
   Filter_constructor(FieldString(<<"a">>), FilterOperator.Equals,
                      <<"x", LoneSurrogate>>, FALSE)}

QueryPagingPool ==
  {NullObject, Paging_fromPage(3, 10), Paging_constructor(Pow10(21), Num(10))}

\* name=value sequences a query string is put together from by hand
PiecePool ==
  {WireKey(K_filters, 0, K_op) \o <<"=">> \o FilterOperator.Contains,
   WireKey(K_filters, 0, K_op) \o <<"=">> \o FilterOperator.Equals,
   K_filters \o <<"[", "0", "0", "]", "[">> \o K_op \o <<"]", "=">>
     \o FilterOperator.NotEquals,
   K_filters \o <<"%", "5", "B", "0", "%", "5", "d", "%", "5", "B">> \o K_val
     \o <<"%", "5", "D", "=", "a", "+", "b", "%", "2", "B", "%", "6", "1">>,
   WireKey(K_filters, 0, K_val) \o <<"=", "%", "F", "F">>,
   WireKey(K_filters, 3, K_proto) \o <<"=", "x">>,
   WireKey(K_sortings, 1, K_prop) \o <<"=", "p">>,
   WireKey(K_sortings, 1, K_prop) \o <<"=", "q", "=", "r">>,
   K_skip \o <<"=", "1", "0">>,
   K_skip,
   K_take \o <<"=", "5">>,
   K_take \o <<"=", "%", "z", "z", "7">>,
   <<"?">> \o K_take \o <<"=", "7">>,
   K_proto \o <<"=", "x">>,
   <<"=", "x">>,
   <<>>}

InitQuery ==
  /\ qKind = "none"
  /\ qDict = EmptyDict
  /\ qSp = NullObject
  /\ qs = <<>>
  /\ nPieces = 0
  /\ qCall = "none"
  /\ qOut = NullObject
  /\ qRef = NullObject

\* the client encodes a dictionary as toURLSearchParams does its own
EncodeDictionary(dict) ==
  /\ qKind = "none"
  /\ qKind' = "dict"
  /\ qDict' = dict
  /\ qs' = URLSearchParams_toString(AppendEntries(<<>>, dict))
  /\ UNCHANGED <<qSp, nPieces, qCall, qOut, qRef>>

CallToQueryString(this) ==
  /\ qKind = "none"
  /\ qKind' = "sp"
  /\ qSp' = this
  /\ qs' = SearchParameters_toQueryString(this)
  /\ UNCHANGED <<qDict, nPieces, qCall, qOut, qRef>>

\* the client writes the query string itself, sequence by sequence
AppendPiece(piece) ==
  /\ qKind \in {"none", "raw"}
  /\ qCall = "none"
  /\ nPieces < MaxPieces
  /\ qKind' = "raw"
  /\ qs' = IF nPieces = 0 THEN piece ELSE qs \o <<"&">> \o piece
  /\ nPieces' = nPieces + 1
  /\ UNCHANGED <<qDict, qSp, qCall, qOut, qRef>>

CallFromQueryString ==
  /\ qKind # "none"
  /\ qCall = "none"
  /\ qOut' = SearchParameters_fromQueryString(qs)
  /\ qCall' = "fromQueryString"
  /\ UNCHANGED <<qKind, qDict, qSp, qs, nPieces, qRef>>

\* SearchParameters.fromURLSearchParams(new URLSearchParams(qs))
CallFromURLSearchParams ==
  /\ qKind # "none"
  /\ qCall = "none"
  /\ qOut' = SearchParameters_fromURLSearchParams(URLSearchParams_new(qs))
  /\ qCall' = "fromURLSearchParams"
  /\ UNCHANGED <<qKind, qDict, qSp, qs, nPieces, qRef>>

\* SearchParameters.fromDictionary on the dictionary the query string was
\* made from
CallFromDictionaryDirectly ==
  /\ qKind \in {"dict", "sp"}
  /\ qRef = NullObject
  /\ qRef' = SearchParameters_fromDictionary(
               IF qKind = "dict" THEN qDict
               ELSE SearchParameters_toDictionary(qSp))
  /\ UNCHANGED <<qKind, qDict, qSp, qs, nPieces, qCall, qOut>>

NewQuery ==
  /\ qCall # "none"
  /\ qKind' = "none"
  /\ qDict' = EmptyDict
  /\ qSp' = NullObject
  /\ qs' = <<>>
  /\ nPieces' = 0
  /\ qCall' = "none"
  /\ qOut' = NullObject
  /\ qRef' = NullObject

QueryFrame ==
  UNCHANGED <<filterVars, roundTripVars, builderVars, dictVars, pagingVars,
              sortingVars>>

NextQuery ==
  \/ \E d \in QueryDictPool : EncodeDictionary(d) /\ QueryFrame
  \/ \E fs \in SeqsUpTo(QueryFilterPool, MaxQueryFilters),
        ss \in SeqsUpTo(SortingPool, 1),
        pg \in QueryPagingPool :
       /\ CallToQueryString(SearchParameters_constructor(fs, ss, pg))
       /\ QueryFrame
  \/ \E piece \in PiecePool : AppendPiece(piece) /\ QueryFrame
  \/ CallFromQueryString /\ QueryFrame
  \/ CallFromURLSearchParams /\ QueryFrame
  \/ CallFromDictionaryDirectly /\ QueryFrame
  \/ NewQuery /\ QueryFrame

Init ==
  /\ InitFilter
  /\ InitRoundTrip
  /\ InitBuilder
  /\ InitDict
  /\ InitPaging
  /\ InitQuery

Spec == Init /\ [][NextRoundTrip]_vars

SpecBuilder == Init /\ [][NextBuilder]_vars

SpecFilter == Init /\ [][NextFilter]_vars

SpecDict == Init /\ [][NextDict]_vars

SpecPaging == Init /\ [][NextPaging]_vars

SpecQuery == Init /\ [][NextQuery]_vars

\* ------------------------------------------------------------------------
\* Properties of Filter (checked under SpecFilter)
\* ------------------------------------------------------------------------

UnaryOperators == {FilterOperator.Null, FilterOperator.NotNull}

\* C2 (as claimed): the dictionary of a Filter whose operator is Null or
\* NotNull never has a `val` key, whatever value the Filter was given.
C2_UnaryOmitsVal ==
  (fltDict # EmptyDict /\ flt.operator \in UnaryOperators)
    => ~DictHas(fltDict, K_val)

\* C9: toDictionary() has the key `case` exactly when caseSensitive is true;
\* its value is then "true", and "false" is never emitted.
C9_CaseFlag ==
  fltDict # EmptyDict =>
    /\ DictHas(fltDict, K_case) <=> flt.caseSensitive
    /\ DictHas(fltDict, K_case) => DictGet(fltDict, K_case) = S_true
    /\ \A i \in 1..Len(fltDict) : fltDict[i] # <<K_case, S_false>>

C9_Witness ==
  /\ fltDict # EmptyDict
  /\ ~flt.caseSensitive
  /\ DictHas(fltDict, K_val)
  /\ ~DictHas(fltDict, K_case)

\* the integer indices N of the keys name[N][...] of a flat dictionary
IndicesOf(dict, name) ==
  {parseInt(MatchAtStart(name, dict[i][1]).index).v :
     i \in {j \in 1..Len(dict) : MatchAtStart(name, dict[j][1]).matched}}

\* the index whose element comes at `position` (1-based) of the result: the
\* one with position - 1 smaller indices
IndexAtPosition(dict, name, position) ==
  CHOOSE n \in IndicesOf(dict, name) :
    Cardinality({m \in IndicesOf(dict, name) : m < n}) = position - 1

\* whether the operation that made flt was given a field name at all
GivenSomeField ==
  CASE fltVia = "new Filter" -> ~fltIn.isArray \/ fltIn.v # <<>>
    [] fltVia = "FilterBuilder.build" -> fltIn # <<>>
    [] fltVia = "Filter.fromDictionary" -> DictHas(fltIn, K_fields)
    [] fltVia = "SearchParameters.fromDictionary" ->
         \E i \in 1..Len(fltIn.dict) :
           LET m == MatchAtStart(K_filters, fltIn.dict[i][1])
           IN /\ m.matched
              /\ parseInt(m.index).v =
                   IndexAtPosition(fltIn.dict, K_filters, fltIn.position)
              /\ m.prop = K_fields

\* C10 (as claimed): every Filter has a non-empty fields sequence.
C10_FieldsNeverEmpty == flt # NullObject => flt.fields # <<>>

\* C10 (amended): a Filter has a non-empty fields sequence exactly when it
\* was made from a single string, from a non-empty sequence, by a builder on
\* which a field was set, or from a dictionary that holds a `fields` key; a
\* single string is wrapped into a one-element sequence.
C10_FieldsEmptyOnlyWithoutField ==
  flt # NullObject =>
    /\ flt.fields # <<>> <=> GivenSomeField
    /\ (fltVia = "new Filter" /\ ~fltIn.isArray) => flt.fields = <<fltIn.v>>

C10_Witness ==
  /\ fltVia = "SearchParameters.fromDictionary"
  /\ fltIn.position = 2
  /\ flt.fields = <<(<<"a">>), (<<"b">>)>>

\* ------------------------------------------------------------------------
\* Properties of SearchParameters.toDictionary / fromDictionary (under Spec)
\* ------------------------------------------------------------------------

Range(seq) == {seq[i] : i \in 1..Len(seq)}

HasPrefix(key, name) ==
  Len(key) >= Len(name) /\ SubSeq(key, 1, Len(name)) = name

EntriesUnder(dict, name) == {e \in Range(dict) : HasPrefix(e[1], name)}

Serialized == rtPc \in {"serialized", "parsed", "reserialized"}

Parsed == rtPc \in {"parsed", "reserialized"}

DistinctProperties(sortings) ==
  \A i, j \in 1..Len(sortings) :
    i # j => sortings[i].property # sortings[j].property

IsInteger(x) == x.t \in {"int", "pow10"}

IntegerPaging(p) == p = NullObject \/ (IsInteger(p.skip) /\ IsInteger(p.take))

\* integers that toString prints in plain digits: magnitude below 10^21
PlainIntegerPaging(p) ==
  p = NullObject \/ (p.skip.t = "int" /\ p.take.t = "int")

\* every filter names a field, and no field name holds the separator
SplittableFields(filters) ==
  \A i \in 1..Len(filters) :
    /\ filters[i].fields # <<>>
    /\ \A k \in 1..Len(filters[i].fields) :
         "," \notin Range(filters[i].fields[k])

\* C1 (as claimed): with pairwise distinct sorting properties and paging
\* absent or integer, fromDictionary(s.toDictionary()) has the filters,
\* sortings and paging of s.
C1_RoundTrip ==
  (Parsed /\ DistinctProperties(sp.sortings) /\ IntegerPaging(sp.paging))
    => parsed = sp

\* C1 (amended): the same, for s whose filters each have a non-empty fields
\* sequence without a comma in any field name and whose paging, if present,
\* has integer skip and take of magnitude below 10^21.
C1_RoundTripCanonical ==
  (/\ Parsed
   /\ DistinctProperties(sp.sortings)
   /\ PlainIntegerPaging(sp.paging)
   /\ SplittableFields(sp.filters))
    => parsed = sp

C1_Witness ==
  /\ rtPc = "parsed"
  /\ DistinctProperties(sp.sortings)
  /\ SplittableFields(sp.filters)
  /\ Len(sp.filters) = 2
  /\ Len(sp.sortings) = 2
  /\ sp.paging = Paging_constructor(Num(20), Num(10))
  /\ parsed = sp

\* positions of the sortings that are the first with their property
FirstOccurrences(sortings) ==
  {i \in 1..Len(sortings) :
     \A j \in 1..(i - 1) : sortings[j].property # sortings[i].property}

\* how many first occurrences come before position i
Rank(sortings, i) == Cardinality({j \in FirstOccurrences(sortings) : j < i})

ExpectedSortingEntries(sortings) ==
  UNION {{<<WireKey(K_sortings, Rank(sortings, i), K_prop),
            sortings[i].property>>,
          <<WireKey(K_sortings, Rank(sortings, i), K_ord),
            sortings[i].order>>} : i \in FirstOccurrences(sortings)}

\* C4: toDictionary() emits one sortings[i][prop] / sortings[i][ord] pair per
\* distinct property, i counting the first occurrences from 0, with the order
\* of the first occurrence.
C4_SortingsDeduplicated ==
  Serialized =>
    /\ EntriesUnder(spDict, K_sortings) = ExpectedSortingEntries(sp.sortings)
    /\ Cardinality({i \in 1..Len(spDict) : HasPrefix(spDict[i][1], K_sortings)})
         = 2 * Cardinality({sp.sortings[i].property : i \in 1..Len(sp.sortings)})

C4_Witness ==
  /\ rtPc = "serialized"
  /\ sp.sortings = <<Sorting_constructor(<<"p">>, SortOrder.Ascending),
                     Sorting_constructor(<<"p">>, SortOrder.Descending)>>
  /\ DictGet(spDict, WireKey(K_sortings, 0, K_ord)) = SortOrder.Ascending
  /\ ~DictHas(spDict, WireKey(K_sortings, 1, K_ord))

ExpectedFilterEntries(filters) ==
  UNION {{<<WireKey(K_filters, i - 1, e[1]), e[2]>> :
            e \in Range(Filter_toDictionary(filters[i]))} :
         i \in 1..Len(filters)}

\* C8: the filter at position i contributes exactly the keys filters[i][k] of
\* its own dictionary, skip and take are top-level keys exactly when paging is
\* present, and all keys are distinct.
C8_FilterAndPagingKeys ==
  Serialized =>
    /\ EntriesUnder(spDict, K_filters) = ExpectedFilterEntries(sp.filters)
    /\ DictHas(spDict, K_skip) <=> sp.paging # NullObject
    /\ DictHas(spDict, K_take) <=> sp.paging # NullObject
    /\ sp.paging # NullObject =>
         /\ DictGet(spDict, K_skip) = Number_toString(sp.paging.skip)
         /\ DictGet(spDict, K_take) = Number_toString(sp.paging.take)
    /\ Cardinality(DictKeys(spDict)) = Len(spDict)
    /\ \A e \in Range(spDict) :
         \/ HasPrefix(e[1], K_filters)
         \/ HasPrefix(e[1], K_sortings)
         \/ e[1] \in {K_skip, K_take}

C8_Witness ==
  /\ rtPc = "serialized"
  /\ Len(sp.filters) = 2
  /\ sp.filters[2].caseSensitive
  /\ sp.paging # NullObject
  /\ DictGet(spDict, WireKey(K_filters, 1, K_case)) = S_true
  /\ DictGet(spDict, K_skip) = <<"2", "0">>

\* ------------------------------------------------------------------------
\* Properties of SearchParametersBuilder (under SpecBuilder)
\* ------------------------------------------------------------------------

\* C3 (as claimed): a value that build() returned keeps the filters, sortings
\* and paging it had when it was returned, whatever is called on the builder
\* afterwards.
C3_BuiltValuesNeverChange ==
  /\ v1 # NullObject => Contents(v1) = snap1
  /\ v2 # NullObject => Contents(v2) = snap2

\* ------------------------------------------------------------------------
\* Properties of deserialization (under SpecDict)
\* ------------------------------------------------------------------------

CalledSearchParameters ==
  dPc = "called" /\ call = "SearchParameters.fromDictionary"

CalledPaging == dPc = "called" /\ call = "Paging.fromDictionary"

\* the string starts, after white space and one optional sign, with a digit
HasIntegerPrefix(str) ==
  LET t == TrimStart(str)
      u == IF t # <<>> /\ Head(t) \in {"+", "-"} THEN Tail(t) ELSE t
  IN u # <<>> /\ IsDigit(Head(u))

BothParse(dict) ==
  /\ DictHas(dict, K_skip)
  /\ DictHas(dict, K_take)
  /\ HasIntegerPrefix(DictGet(dict, K_skip))
  /\ HasIntegerPrefix(DictGet(dict, K_take))

IsPagingOf(p, dict) ==
  /\ p.skip = parseInt(DictGet(dict, K_skip))
  /\ p.take = parseInt(DictGet(dict, K_take))
  /\ ~isNaN(p.skip)
  /\ ~isNaN(p.take)

RECURSIVE SubDictFrom(_, _, _, _)
SubDictFrom(acc, dict, name, n) ==
  IF dict = <<>> THEN acc
  ELSE LET m == MatchAtStart(name, dict[1][1])
       IN SubDictFrom(
            IF m.matched /\ parseInt(m.index).v = n
            THEN DictSet(acc, m.prop, dict[1][2]) ELSE acc,
            Tail(dict), name, n)

UnknownKey(key) ==
  /\ ~MatchAtStart(K_filters, key).matched
  /\ ~MatchAtStart(K_sortings, key).matched
  /\ key # K_skip
  /\ key # K_take

\* C7: setting an unknown key leaves the result of
\* SearchParameters.fromDictionary as it was.
C7_UnknownKeysIgnored ==
  (CalledSearchParameters /\ before # NullObject /\ UnknownKey(lastKey))
    => out = before

C7_Witness ==
  /\ CalledSearchParameters
  /\ before # NullObject
  /\ lastKey = <<"x">> \o WireKey(K_filters, 0, K_op)
  /\ Len(inDict) = 2
  /\ Len(out.filters) = 1
  /\ out = before

\* ------------------------------------------------------------------------
\* Properties of Paging.fromPage and the page views (under SpecPaging)
\* ------------------------------------------------------------------------

FromPageIsLinear ==
  /\ pag.skip = Num((pagIn.page - 1) * pagIn.pageSize)
  /\ pag.take = Num(pagIn.pageSize)
  /\ pagSize # NullObject => pagSize = Num(pagIn.pageSize)

\* C11 (as claimed): for page number n >= 1 and page size s >= 0,
\* Paging.fromPage(n, s) has skip = (n - 1) * s and take = s, its pageSize is
\* s and its page is n.
C11_PageArithmetic ==
  (pag # NullObject /\ pagIn.page >= 1 /\ pagIn.pageSize >= 0) =>
    /\ FromPageIsLinear
    /\ pagPage # NullObject => pagPage = Num(pagIn.page)

\* C11 (amended): skip = (n - 1) * s, take = s and pageSize = s for n >= 1
\* and s >= 0; page is n when s >= 1, and 1 when s = 0 whatever n is.
C11_PageArithmeticBySize ==
  (pag # NullObject /\ pagIn.page >= 1 /\ pagIn.pageSize >= 0) =>
    /\ FromPageIsLinear
    /\ pagPage # NullObject =>
         pagPage = IF pagIn.pageSize >= 1 THEN Num(pagIn.page) ELSE Num(1)

C11_Witness ==
  /\ pag # NullObject
  /\ pagIn = [page |-> 3, pageSize |-> 4]
  /\ pag = Paging_constructor(Num(8), Num(4))
  /\ pagPage = Num(3)
  /\ pagSize = Num(4)

\* ------------------------------------------------------------------------
\* Properties of the query-string operations (under SpecQuery)
\* ------------------------------------------------------------------------

Decoded == qCall # "none"

\* the dictionary the query string was made from
SourceDict ==
  IF qKind = "dict" THEN qDict ELSE SearchParameters_toDictionary(qSp)

WellFormed(str) == \A i \in 1..Len(str) : str[i] # LoneSurrogate

WellFormedDict(dict) ==
  \A i \in 1..Len(dict) : WellFormed(dict[i][1]) /\ WellFormed(dict[i][2])

\* C12 (as claimed): for a dictionary d of recognized keys, and for
\* d = s.toDictionary() of any SearchParameters s, fromQueryString (and
\* fromURLSearchParams) of the query string that encodes d returns what
\* fromDictionary(d) returns.
C12_QueryStringRoundTrip ==
  (Decoded /\ qKind \in {"dict", "sp"} /\ qRef # NullObject) => qOut = qRef

\* C12 (amended): the same, for d whose keys and values are well-formed
\* strings (without unpaired surrogates).
C12_QueryStringRoundTripWellFormed ==
  (/\ Decoded
   /\ qKind \in {"dict", "sp"}
   /\ qRef # NullObject
   /\ WellFormedDict(SourceDict))
    => qOut = qRef

C12_Witness ==
  /\ qCall = "fromQueryString"
  /\ qKind = "sp"
  /\ Len(qSp.filters) = 2
  /\ qSp.filters[1].value = <<"a", " ", "b", "+", "c">>
  /\ qSp.filters[2].value = <<"5", "%", "&", "x", "=", "?">>
  /\ qSp.paging # NullObject
  /\ qRef # NullObject
  /\ qOut = qRef
  /\ qOut.filters[1].value = <<"a", " ", "b", "+", "c">>

\* the name/value pairs the query string decodes to
Pairs == URLSearchParams_new(qs)

\* positions of the pairs that are the first with their name
FirstWithName(pairs) ==
  {i \in 1..Len(pairs) : \A j \in 1..(i - 1) : pairs[j][1] # pairs[i][1]}

LastValue(pairs, name) ==
  pairs[CHOOSE j \in 1..Len(pairs) :
          /\ pairs[j][1] = name
          /\ \A k \in (j + 1)..Len(pairs) : pairs[k][1] # name][2]

\* one entry per name, in the order the names first occur, each with the
\* value of the last occurrence of its name
KeepLast(pairs) ==
  [n \in 1..Cardinality(FirstWithName(pairs)) |->
     LET i == CHOOSE k \in FirstWithName(pairs) :
                Cardinality({j \in FirstWithName(pairs) : j < k}) = n - 1
     IN <<pairs[i][1], LastValue(pairs, pairs[i][1])>>]

\* C13: fromQueryString and fromURLSearchParams return what fromDictionary
\* returns for the mapping that keeps, for each name, the value of its last
\* occurrence.
C13_LastValueWins ==
  Decoded => qOut = SearchParameters_fromDictionary(KeepLast(Pairs))

C13_Witness ==
  /\ qCall = "fromURLSearchParams"
  /\ qs = WireKey(K_filters, 0, K_op) \o <<"=">> \o FilterOperator.Contains
            \o <<"&">>
            \o WireKey(K_filters, 0, K_op) \o <<"=">> \o FilterOperator.Equals
  /\ Len(qOut.filters) = 1
  /\ qOut.filters[1].operator = FilterOperator.Equals

IsFilterValue(f) ==
  /\ DOMAIN f = {"fields", "operator", "value", "caseSensitive"}
  /\ f.caseSensitive \in BOOLEAN
  /\ f.operator # Undefined
  /\ f.value # Undefined
  /\ \A i \in 1..Len(f.fields) : f.fields[i] # Undefined

IsSortingValue(s) ==
  /\ DOMAIN s = {"property", "order"}
  /\ s.property # Undefined
  /\ s.order # Undefined

IsPagingValue(p) ==
  /\ DOMAIN p = {"skip", "take"}
  /\ ~isNaN(p.skip)
  /\ ~isNaN(p.take)

IsSearchParametersValue(x) ==
  /\ DOMAIN x = {"filters", "sortings", "paging"}
  /\ \A i \in 1..Len(x.filters) : IsFilterValue(x.filters[i])
  /\ \A i \in 1..Len(x.sortings) : IsSortingValue(x.sortings[i])
  /\ x.paging = NullObject \/ IsPagingValue(x.paging)

IsPagingKey(pair) == pair[1] \in {K_skip, K_take}

IsNoPagingKey(pair) == ~IsPagingKey(pair)

\* C14: whatever the query string or dictionary, fromQueryString,
\* fromURLSearchParams and fromDictionary return a SearchParameters value
\* made of Filter, Sorting and Paging values; paging keys that do not both
\* parse show only as absent paging, the filters and sortings being those of
\* the other keys.
C14_AlwaysASearchParameters ==
  /\ qRef # NullObject => IsSearchParametersValue(qRef)
  /\ Decoded =>
       /\ IsSearchParametersValue(qOut)
       /\ qOut.paging = NullObject <=> ~BothParse(KeepLast(Pairs))
       /\ LET others ==
                SearchParameters_fromDictionary(
                  KeepLast(SelectSeq(Pairs, IsNoPagingKey)))
          IN qOut.filters = others.filters /\ qOut.sortings = others.sortings

C14_Witness ==
  /\ qCall = "fromQueryString"
  /\ qs = WireKey(K_filters, 3, K_proto) \o <<"=", "x", "&">>
            \o K_take \o <<"=", "%", "z", "z", "7">>
  /\ Len(qOut.filters) = 1
  /\ qOut.filters[1].fields = <<>>
  /\ qOut.paging = NullObject

\* ------------------------------------------------------------------------
\* Defaults of Filter.fromDictionary and Sorting.fromDictionary (SpecFilter)
\* ------------------------------------------------------------------------

\* the value of key k when the dictionary has it, else the default
ValueOrDefault(dict, k, default) ==
  IF DictHas(dict, k) THEN DictGet(dict, k) ELSE default

\* C15: Filter.fromDictionary gives operator Equals without `op`, value null
\* without `val`, caseSensitive true exactly for `case` = "true", and no
\* fields without `fields`; Sorting.fromDictionary gives property "" without
\* `prop` and order Ascending without `ord`; a present `op` or `ord` is
\* taken as it is, a known wire code or not.
C15_DefaultsOnMissingKeys ==
  /\ fltVia = "Filter.fromDictionary" =>
       /\ flt.operator = ValueOrDefault(fltIn, K_op, FilterOperator.Equals)
       /\ flt.value = ValueOrDefault(fltIn, K_val, Null)
       /\ flt.caseSensitive <=>
            (DictHas(fltIn, K_case) /\ DictGet(fltIn, K_case) = S_true)
       /\ ~DictHas(fltIn, K_fields) => flt.fields = <<>>
  /\ srt # NullObject =>
       /\ srt.property = ValueOrDefault(srtIn, K_prop, <<>>)
       /\ srt.order = ValueOrDefault(srtIn, K_ord, SortOrder.Ascending)

C15_Witness ==
  /\ fltVia = "Filter.fromDictionary"
  /\ fltIn = <<(<<K_op, <<"l", "i", "k", "e">>>>), (<<K_case, <<"1">>>>)>>
  /\ flt = [fields |-> <<>>, operator |-> <<"l", "i", "k", "e">>,
            value |-> Null, caseSensitive |-> FALSE]
  /\ srtIn = <<(<<K_prop, <<>>>>), (<<K_ord, <<"D", "E", "S", "C">>>>)>>
  /\ srt = [property |-> <<>>, order |-> <<"D", "E", "S", "C">>]

\* ------------------------------------------------------------------------
\* What build() returns (under SpecBuilder)
\* ------------------------------------------------------------------------

\* C16: the value build() returns holds, when it is returned, the filters
\* given to filter/filters in call order, the sortings given to
\* sortBy/sortings in call order with duplicates, and the paging of the most
\* recent paginate/page/skipTake call, or none.
C16_BuildAccumulatesInCallOrder ==
  [][/\ snap1' # snap1 => snap1' = asked
     /\ snap2' # snap2 => snap2' = asked]_vars

C16_Witness ==
  /\ snap1 # NullObject
  /\ Len(snap1.filters) = 2
  /\ snap1.filters[1] # snap1.filters[2]
  /\ Len(snap1.sortings) = 2
  /\ snap1.sortings[1].property = snap1.sortings[2].property
  /\ snap1.paging = Paging_constructor(Num(20), Num(10))
  /\ snap1 = asked

\* ------------------------------------------------------------------------
\* Serializing what was parsed (under Spec)
\* ------------------------------------------------------------------------

Reserialized == rtPc = "reserialized"

\* C17 (as claimed): for s with paging absent or integer,
\* fromDictionary(s.toDictionary()).toDictionary() is s.toDictionary(),
\* duplicate sorting properties, empty fields sequences and commas in field
\* names included.
C17_SerializationIdempotent ==
  (Reserialized /\ IntegerPaging(sp.paging)) => parsedDict = spDict

\* C17 (amended): the same, for s whose paging is absent or has integer skip
\* and take of magnitude below 10^21.
C17_SerializationIdempotentPlain ==
  (Reserialized /\ PlainIntegerPaging(sp.paging)) => parsedDict = spDict

C17_Witness ==
  /\ Reserialized
  /\ Len(sp.filters) = 2
  /\ sp.filters[1].fields = <<>>
  /\ sp.filters[2].fields = <<(<<"a", ",", "b">>)>>
  /\ Len(sp.sortings) = 2
  /\ sp.sortings[1].property = sp.sortings[2].property
  /\ sp.paging = Paging_constructor(Num(-5), Num(0))
  /\ parsed.filters[1].fields = <<(<<>>)>>
  /\ Len(parsed.filters[2].fields) = 2
  /\ Len(parsed.sortings) = 1
  /\ parsedDict = spDict

\* ------------------------------------------------------------------------
\* Keys that spell one index in several ways (under SpecDict)
\* ------------------------------------------------------------------------

\* both keys are name[N][prop] keys with the same integer N and the same prop
SameSlot(name, key1, key2) ==
  LET m1 == MatchAtStart(name, key1)
      m2 == MatchAtStart(name, key2)
  IN /\ m1.matched
     /\ m2.matched
     /\ parseInt(m1.index) = parseInt(m2.index)
     /\ m1.prop = m2.prop

\* entry i is the last one enumerated for its index and property
LastOfSlot(dict, name, i) ==
  /\ MatchAtStart(name, dict[i][1]).matched
  /\ \A j \in (i + 1)..Len(dict) : ~SameSlot(name, dict[i][1], dict[j][1])

\* the 1-based position, in the result, of the element for the key's index
PositionOf(dict, name, key) ==
  Cardinality({n \in IndicesOf(dict, name) :
                 n < parseInt(MatchAtStart(name, key).index).v}) + 1

\* C18: keys whose index digits differ but denote the same integer go into
\* one sub-dictionary and give one Filter (one Sorting); of several keys for
\* the same index and property, the one enumerated last gives the value.
C18_IndexCollision ==
  CalledSearchParameters =>
    /\ Len(out.filters) = Cardinality(IndicesOf(inDict, K_filters))
    /\ Len(out.sortings) = Cardinality(IndicesOf(inDict, K_sortings))
    /\ \A i \in 1..Len(inDict) :
         LastOfSlot(inDict, K_filters, i) =>
           LET prop == MatchAtStart(K_filters, inDict[i][1]).prop
               f == out.filters[PositionOf(inDict, K_filters, inDict[i][1])]
           IN /\ prop = K_val => f.value = inDict[i][2]
              /\ prop = K_op => f.operator = inDict[i][2]
              /\ prop = K_fields => Join(f.fields, S_comma) = inDict[i][2]
    /\ \A i \in 1..Len(inDict) :
         LastOfSlot(inDict, K_sortings, i) =>
           LET prop == MatchAtStart(K_sortings, inDict[i][1]).prop
               g == out.sortings[PositionOf(inDict, K_sortings, inDict[i][1])]
           IN /\ prop = K_prop => g.property = inDict[i][2]
              /\ prop = K_ord => g.order = inDict[i][2]

C18_Witness ==
  /\ CalledSearchParameters
  /\ inDict = <<(<<WireKey(K_filters, 2, K_val), <<"x">>>>),
                (<<K_filters \o <<"[", "0", "2", "]", "[">> \o K_val \o <<"]">>,
                   <<"y">>>>)>>
  /\ Len(out.filters) = 1
  /\ out.filters[1].value = <<"y">>

====
